---- MODULE Spec2Model ----
(***************************************************************************)
(* Model of datafun-venv-checker/venv_checker.py.                          *)
(*                                                                         *)
(* The program is a unittest.TestCase with three test methods and a        *)
(* setUp; `unittest.main` runs setUp before each test method, records a    *)
(* SkipTest raised by setUp or by the method as "skipped", any other       *)
(* escaping exception as an "error", and exits with status 0 exactly when  *)
(* no error and no failure was recorded.  TestCase.fail is overridden so   *)
(* that it logs and prints instead of raising.                             *)
(*                                                                         *)
(* A line of requirements.txt is a sequence of characters; a package name  *)
(* is the stripped line.  The test runner of the model takes the three     *)
(* test methods in any order (unittest's default loader sorts them by      *)
(* name, which is one of these orders).                                    *)
(***************************************************************************)
EXTENDS Integers, Sequences, FiniteSets, TLC

\* ---------------------------------------------------------------- bounds
\* The parse of one file (SpecParse) ranges over every file within
\* MaxLines and MaxLineLen; a whole run (Spec), where each requirement is
\* then queried with three possible outcomes, over every file within
\* RunMaxLines and RunMaxLineLen.
MaxLines == 2        \* lines in requirements.txt, for the parse
MaxLineLen == 2      \* characters in one line, for the parse
RunMaxLines == 2     \* lines in requirements.txt, in a run
RunMaxLineLen == 1   \* characters in one line, in a run

\* Characters of a line: whitespace, the comment marker, a name character.
Chars == {" ", "#", "a"}
IsSpace(c) == c = " "

Lines == UNION {[1..n -> Chars] : n \in 0..MaxLineLen}
Files == UNION {[1..n -> Lines] : n \in 0..MaxLines}

RunLines == UNION {[1..n -> Chars] : n \in 0..RunMaxLineLen}
RunFiles == UNION {[1..n -> RunLines] : n \in 0..RunMaxLines}

\* ---------------------------------------------------- program constants
RECOMMENDED_VENV_NAME == ".venv"
RECOMMENDED_REQUIREMENTS_FILE_NAME == "requirements.txt"
GUIDE_IF_DOT_VENV_MISSING == "ERROR: Missing .venv folder - HOW TO FIX"
GUIDE_IF_INACTIVE == "ERROR: Local project virtual environment is not active - HOW TO FIX"
GUIDE_IF_REQ_FILE_MISSING == "ERROR: Local requirements.txt file is missing - HOW TO FIX"
GUIDE_IF_REQ_PACKAGE_MISSING == "ERROR: Not all packages listed in requirements.txt are installed - HOW TO FIX"

\* The test methods of TestLocalProjectVenv.
Tests == {"test_venv_exists", "test_venv_is_active", "test_requirements_installed"}

\* Outcomes of subprocess.check_call([sys.executable, "-m", "pip", "show", p]):
\* exit status 0, a non-zero exit status (CalledProcessError), or the spawn
\* itself failing (OSError: FileNotFoundError, PermissionError, ...).
QueryOutcomes == {"exit0", "nonzero", "oserror"}

VARIABLES
    isfile,             \* os.path.isfile("requirements.txt")
    isdir,              \* os.path.isdir(".venv")
    VIRTUAL_ENV,        \* os.getenv("VIRTUAL_ENV"): "" when unset or empty
    f,                  \* the lines of requirements.txt where a specification
                        \* fixes them beforehand (SpecParse); <<>> otherwise
    progress,           \* the module-level progress counter
    pc,                 \* where the run is
    cur,                \* the test method the runner is in
    finished,           \* test methods the runner is done with
    started,            \* test methods whose body was entered
    skipped,            \* unittest result: tests recorded as skipped
    errors,             \* unittest result: tests recorded as errors
    logged,             \* records sent to the logger (console and file)
    printed,            \* text written with print()
    required_packages,  \* the list built at lines 183-187
    missing_packages,   \* the list built at lines 189-199
    queried,            \* the subprocess spawns so far: <<package, outcome>>
    exitStatus          \* the process exit status, -1 while running

vars == <<isfile, isdir, VIRTUAL_ENV, f, progress, pc, cur, finished, started,
          skipped, errors, logged, printed, required_packages,
          missing_packages, queried, exitStatus>>

env == <<isfile, isdir, VIRTUAL_ENV>>

\* ------------------------------------------------------- pure functions
\* str.strip(): drop leading, then trailing, whitespace.
RECURSIVE lstrip(_)
lstrip(s) ==
    IF s = <<>> THEN s
    ELSE IF IsSpace(Head(s)) THEN lstrip(Tail(s)) ELSE s

RECURSIVE rstrip(_)
rstrip(s) ==
    IF s = <<>> THEN s
    ELSE IF IsSpace(s[Len(s)]) THEN rstrip(SubSeq(s, 1, Len(s) - 1)) ELSE s

strip(s) == rstrip(lstrip(s))

\* str.startswith with a one-character prefix.
startswith(s, c) == Len(s) >= 1 /\ s[1] = c

KeepLineNoStrip(line) == strip(line) # <<>> /\ ~startswith(line, "#")

\* The condition of the comprehension, line 186.
KeepLine(line) == strip(line) # <<>> /\ ~startswith(strip(line), "#")

\* The list comprehension of lines 183-187.
RECURSIVE RequiredPackages(_)
RequiredPackages(lines) ==
    IF lines = <<>> THEN <<>>
    ELSE IF KeepLine(Head(lines))
         THEN <<strip(Head(lines))>> \o RequiredPackages(Tail(lines))
         ELSE RequiredPackages(Tail(lines))

\* log_progress(): the record logged for a value of the counter.
log_progress(p) ==
    IF p = 33 THEN <<"INFO", "Progress: You're 1/3 done - good start!", p>>
    ELSE IF p = 66 THEN <<"INFO", "Progress: You're 2/3 done - almost there!", p>>
    ELSE IF p = 100 THEN <<"INFO", "Progress: 100% completed - all checks passed. Nice work!", p>>
    ELSE <<"INFO", "Progress", p>>

\* TestLocalProjectVenv.fail(message): logs and prints, raises nothing.
failLogged(message) == {<<"ERROR", "Test Failed", message>>}
failPrinted(message) == {<<"Test Failed", message>>}

\* setUp's test, line 137.
SetUpSkipsNever(file_present) == FALSE

SetUpSkips(file_present) == ~file_present

\* unittest.main's exit status: `not result.wasSuccessful()`.
ExitCode(errs) == IF errs = {} THEN 0 ELSE 1

\* --------------------------------------------------------------- initial
Init ==
    /\ isfile \in BOOLEAN
    /\ isdir \in BOOLEAN
    /\ VIRTUAL_ENV \in {"", "/project/.venv"}
    /\ f = <<>>
    /\ progress = 0
    /\ pc = "runner"
    /\ cur = "none"
    /\ finished = {}
    /\ started = {}
    /\ skipped = {}
    /\ errors = {}
    /\ logged = {}
    /\ printed = {}
    /\ required_packages = <<>>
    /\ missing_packages = <<>>
    /\ queried = <<>>
    /\ exitStatus = -1

\* --------------------------------------------------------------- actions
\* The runner takes the next test method.
RunTest(t) ==
    /\ pc = "runner"
    /\ t \in Tests \ finished
    /\ cur' = t
    /\ pc' = "setUp"
    /\ UNCHANGED <<env, f, progress, finished, started, skipped, errors, logged,
                   printed, required_packages, missing_packages, queried,
                   exitStatus>>

\* setUp, lines 133-139.
setUp ==
    /\ pc = "setUp"
    /\ IF SetUpSkips(isfile)
       THEN /\ logged' = logged \cup {<<"ERROR", "requirements.txt file is missing.">>}
            /\ skipped' = skipped \cup {cur}
            /\ finished' = finished \cup {cur}
            /\ pc' = "runner"
       ELSE /\ pc' = "body"
            /\ UNCHANGED <<logged, skipped, finished>>
    /\ UNCHANGED <<env, f, progress, cur, started, errors, printed,
                   required_packages, missing_packages, queried, exitStatus>>

ExistsProgressAlways(p, present) == p + 33

\* The counter after test_venv_exists, lines 146-150.
ExistsProgress(p, present) == IF present THEN p + 33 ELSE p

\* test_venv_exists, lines 141-152.
test_venv_exists ==
    /\ pc = "body"
    /\ cur = "test_venv_exists"
    /\ started' = started \cup {cur}
    /\ progress' = ExistsProgress(progress, isdir)
    /\ IF ~isdir
       THEN /\ logged' = logged \cup {<<"ERROR", ".venv folder not found.">>}
                                \cup failLogged("Virtual environment (.venv) not found.")
            /\ printed' = printed \cup failPrinted("Virtual environment (.venv) not found.")
       ELSE /\ logged' = logged \cup {<<"INFO", ".venv folder exists.">>,
                                      log_progress(progress')}
            /\ UNCHANGED printed
    /\ finished' = finished \cup {cur}
    /\ pc' = "runner"
    /\ UNCHANGED <<env, f, cur, skipped, errors, required_packages,
                   missing_packages, queried, exitStatus>>

\* test_venv_is_active, lines 154-167.
test_venv_is_active ==
    /\ pc = "body"
    /\ cur = "test_venv_is_active"
    /\ started' = started \cup {cur}
    /\ IF VIRTUAL_ENV = ""
       THEN /\ logged' = logged \cup {<<"ERROR", "Virtual environment is not active.">>}
                                \cup failLogged("Virtual environment is not active. Please activate .venv.")
            /\ printed' = printed \cup failPrinted("Virtual environment is not active. Please activate .venv.")
            /\ UNCHANGED progress
       ELSE /\ progress' = progress + 33
            /\ logged' = logged \cup {<<"INFO", "Virtual environment is active.">>,
                                      log_progress(progress')}
            /\ UNCHANGED printed
    /\ finished' = finished \cup {cur}
    /\ pc' = "runner"
    /\ UNCHANGED <<env, f, cur, skipped, errors, required_packages,
                   missing_packages, queried, exitStatus>>

\* test_requirements_installed, lines 174-189, with `required` the value
\* of the comprehension: the file test and the parse.
ReadAs(required) ==
    /\ pc = "body"
    /\ cur = "test_requirements_installed"
    /\ started' = started \cup {cur}
    /\ IF ~isfile
       THEN /\ logged' = logged \cup {<<"ERROR", "requirements.txt is missing.">>}
            /\ skipped' = skipped \cup {cur}
            /\ finished' = finished \cup {cur}
            /\ pc' = "runner"
            /\ UNCHANGED <<required_packages, missing_packages>>
       ELSE /\ required_packages' = required
            /\ missing_packages' = <<>>
            /\ pc' = "loop"
            /\ UNCHANGED <<logged, skipped, finished>>
    /\ UNCHANGED <<env, f, progress, cur, errors, printed, queried, exitStatus>>

\* The same, reading `lines` from the file.
Read(lines) == ReadAs(RequiredPackages(lines))

\* What the comprehension can yield over the files of a run.
RequirementLists == {RequiredPackages(lines) : lines \in RunFiles}

\* In a run the file's lines are an input of the read; they are consumed by
\* the comprehension and not kept, so the read is \E lines \in RunFiles :
\* Read(lines), written over the values the parse gives.
test_requirements_installed_read == \E required \in RequirementLists : ReadAs(required)

MissingAfterQueryAll(missing, package, outcome) == Append(missing, package)

\* missing_packages after one pass of the loop body that raised nothing
\* past the except clause, lines 191-199.
MissingAfterQuery(missing, package, outcome) ==
    IF outcome = "nonzero" THEN Append(missing, package) ELSE missing

\* test_requirements_installed, lines 190-199: one pass of the loop.
test_requirements_installed_query ==
    /\ pc = "loop"
    /\ Len(queried) < Len(required_packages)
    /\ LET package == required_packages[Len(queried) + 1] IN
       \E outcome \in QueryOutcomes :
          /\ queried' = Append(queried, <<package, outcome>>)
          /\ IF outcome = "oserror"
             THEN \* only CalledProcessError is caught: the exception
                  \* leaves the test method and the runner records an error
                  /\ errors' = errors \cup {cur}
                  /\ finished' = finished \cup {cur}
                  /\ pc' = "runner"
                  /\ UNCHANGED <<missing_packages, logged>>
             ELSE /\ missing_packages' = MissingAfterQuery(missing_packages, package, outcome)
                  /\ logged' = IF outcome = "exit0"
                               THEN logged \cup {<<"INFO", "Required is installed.", package>>}
                               ELSE logged
                  /\ UNCHANGED <<errors, finished, pc>>
    /\ UNCHANGED <<env, f, progress, cur, started, skipped, printed,
                   required_packages, exitStatus>>

ReqProgressAlways(p, missing) == p + 34

\* The counter after the verdict of lines 201-207.
ReqProgress(p, missing) == IF missing # <<>> THEN p ELSE p + 34

\* test_requirements_installed, lines 201-209: the verdict.
test_requirements_installed_verdict ==
    /\ pc = "loop"
    /\ Len(queried) = Len(required_packages)
    /\ progress' = ReqProgress(progress, missing_packages)
    /\ IF missing_packages # <<>>
       THEN /\ logged' = logged \cup {<<"ERROR", "Missing required packages", missing_packages>>}
                                \cup failLogged("Some packages from requirements.txt are not installed in the virtual environment.")
            /\ printed' = printed \cup failPrinted("Some packages from requirements.txt are not installed in the virtual environment.")
       ELSE /\ logged' = logged \cup {<<"INFO", "All packages in requirements.txt are installed.">>,
                                      log_progress(progress')}
            /\ UNCHANGED printed
    /\ finished' = finished \cup {cur}
    /\ pc' = "runner"
    /\ UNCHANGED <<env, f, cur, started, skipped, errors, required_packages,
                   missing_packages, queried, exitStatus>>

\* unittest.main, lines 219-220: all tests done, the process exits.
Exit ==
    /\ pc = "runner"
    /\ finished = Tests
    /\ exitStatus' = ExitCode(errors)
    /\ pc' = "exited"
    /\ UNCHANGED <<env, f, progress, cur, finished, started, skipped, errors,
                   logged, printed, required_packages, missing_packages, queried>>

Next ==
    \/ \E t \in Tests : RunTest(t)
    \/ setUp
    \/ test_venv_exists
    \/ test_venv_is_active
    \/ test_requirements_installed_read
    \/ test_requirements_installed_query
    \/ test_requirements_installed_verdict
    \/ Exit

Spec == Init /\ [][Next]_vars

\* ------------------------------------------- the parse on a given file
\* The dependency check about to read a requirements file whose lines are f.
InitParse ==
    /\ isfile = TRUE
    /\ isdir \in BOOLEAN
    /\ VIRTUAL_ENV = ""
    /\ f \in Files
    /\ progress = 0
    /\ pc = "body"
    /\ cur = "test_requirements_installed"
    /\ finished = {}
    /\ started = {}
    /\ skipped = {}
    /\ errors = {}
    /\ logged = {}
    /\ printed = {}
    /\ required_packages = <<>>
    /\ missing_packages = <<>>
    /\ queried = <<>>
    /\ exitStatus = -1

ParseFile == Read(f)

NextParse == ParseFile

SpecParse == InitParse /\ [][NextParse]_vars

\* ---------------------------------------------- vocabulary of the claims
Min(S) == CHOOSE x \in S : \A y \in S : x <= y
Max(S) == CHOOSE x \in S : \A y \in S : x >= y

\* A check passed: its success record was logged.
Passed(t) ==
    CASE t = "test_venv_exists" -> <<"INFO", ".venv folder exists.">> \in logged
      [] t = "test_venv_is_active" -> <<"INFO", "Virtual environment is active.">> \in logged
      [] t = "test_requirements_installed" ->
             <<"INFO", "All packages in requirements.txt are installed.">> \in logged

\* A check reported "Test Failed": the line was logged and printed.
FailMessage(t) ==
    CASE t = "test_venv_exists" -> "Virtual environment (.venv) not found."
      [] t = "test_venv_is_active" -> "Virtual environment is not active. Please activate .venv."
      [] t = "test_requirements_installed" ->
             "Some packages from requirements.txt are not installed in the virtual environment."

TestFailed(t) ==
    /\ <<"ERROR", "Test Failed", FailMessage(t)>> \in logged
    /\ <<"Test Failed", FailMessage(t)>> \in printed

AnyTestFailed == \E t \in Tests : <<"ERROR", "Test Failed", FailMessage(t)>> \in logged
                                  \/ <<"Test Failed", FailMessage(t)>> \in printed

Weight(t) == IF t = "test_requirements_installed" THEN 34 ELSE 33

RECURSIVE SumWeights(_)
SumWeights(S) ==
    IF S = {} THEN 0
    ELSE LET t == CHOOSE x \in S : TRUE IN Weight(t) + SumWeights(S \ {t})

\* Every requirement was queried and every query exited with status 0.
AllInstalled ==
    /\ Len(queried) = Len(required_packages)
    /\ \A i \in DOMAIN queried : queried[i][2] = "exit0"

\* The conditions of the three checks all hold in this run.
AllThreePass ==
    /\ isdir
    /\ VIRTUAL_ENV # ""
    /\ isfile
    /\ "test_requirements_installed" \in started
    /\ AllInstalled

\* ---------------------------------------------------------------- claims

\* C1: at the end of a run the progress counter is exactly 100 if the
\* existence, activation and dependency checks all pass, and strictly below
\* 100 if any one of them fails or is skipped.
C1_ProgressEndsAt100IffAllPass ==
    pc = "exited" =>
        IF AllThreePass THEN progress = 100 ELSE progress < 100

C1_Witness ==
    /\ pc = "exited"
    /\ progress = 100
    /\ Len(queried) >= 1

\* C2: with requirements.txt absent, setUp reports every test it precedes
\* as skipped (the dependency check among them), no "Test Failed" line is
\* emitted, no package query is spawned and the dependency check does not
\* advance the progress counter.
C2_AbsentFileSkipsNeverFails ==
    ~isfile =>
        /\ finished \subseteq skipped
        /\ started = {}
        /\ (finished # {} => <<"ERROR", "requirements.txt file is missing.">> \in logged)
        /\ errors = {}
        /\ ~AnyTestFailed
        /\ queried = <<>>
        /\ ~Passed("test_requirements_installed")
        /\ progress \in {0, 33, 66}
        /\ exitStatus \in {-1, 0}

C2_Witness ==
    /\ ~isfile
    /\ pc = "exited"
    /\ "test_requirements_installed" \in skipped

\* C3 (as claimed): a requirement whose package query could not be spawned
\* is appended to the missing packages, the loop goes on to the remaining
\* requirements and no exception leaves the check.
C3_SpawnFailureCountsAsMissing ==
    \A i \in DOMAIN queried :
        queried[i][2] = "oserror" =>
            /\ \E j \in DOMAIN missing_packages : missing_packages[j] = queried[i][1]
            /\ "test_requirements_installed" \notin errors
            /\ ("test_requirements_installed" \in finished
                    => Len(queried) = Len(required_packages))

\* C4 (as claimed): the process always exits with status 0.
C4_AlwaysExitsZero ==
    pc = "exited" => exitStatus = 0

\* C5 (as claimed): in every run each of the three checks is started and
\* reaches its own verdict, whatever the outcome of the other checks.
C5_EveryCheckRuns ==
    pc = "exited" =>
        \A t \in Tests :
            /\ t \in started
            /\ Passed(t) \/ TestFailed(t) \/ t \in skipped

\* The guide the program holds for a check that did not pass.
GuideFor(t) ==
    CASE t = "test_venv_exists" -> GUIDE_IF_DOT_VENV_MISSING
      [] t = "test_venv_is_active" -> GUIDE_IF_INACTIVE
      [] t = "test_requirements_installed" ->
             IF isfile THEN GUIDE_IF_REQ_PACKAGE_MISSING ELSE GUIDE_IF_REQ_FILE_MISSING

\* C6 (as claimed): every failed or skipped check has printed its
\* remediation guide by the time it is finished.
C6_GuidePrintedOnFailure ==
    \A t \in finished :
        (TestFailed(t) \/ t \in skipped) => GuideFor(t) \in printed

\* The positions of the non-blank characters of a line.
NonSpace(line) == {i \in DOMAIN line : ~IsSpace(line[i])}

\* The line without the blanks before its first and after its last
\* non-blank character.
Trimmed(line) ==
    IF NonSpace(line) = {} THEN <<>>
    ELSE SubSeq(line, Min(NonSpace(line)), Max(NonSpace(line)))

\* The lines that hold something other than blanks and whose first
\* non-blank character is not '#'.
Kept(lines) ==
    {i \in DOMAIN lines :
        /\ NonSpace(lines[i]) # {}
        /\ lines[i][Min(NonSpace(lines[i]))] # "#"}

\* r lists, in the file's order, the trimmed form of exactly the kept lines.
IsRequirementList(r, lines) ==
    /\ Len(r) = Cardinality(Kept(lines))
    /\ \A i \in Kept(lines) :
          r[Cardinality({j \in Kept(lines) : j <= i})] = Trimmed(lines[i])

\* C7: the requirement list computed from a requirements file is, in the
\* original order, the whitespace-trimmed form of exactly the lines that
\* are non-empty after trimming and do not start with '#' after trimming;
\* the lines [name, comment, empty, name] give the two names in order.
C7_RequirementListIsTrimmedKeptLines ==
    /\ pc = "loop" => IsRequirementList(required_packages, f)
    /\ RequiredPackages(<< <<"a">>, <<"#", " ", "a">>, <<>>, <<"a", "a">> >>)
           = << <<"a">>, <<"a", "a">> >>

C7_Witness ==
    /\ pc = "loop"
    /\ Len(f) = 2
    /\ Len(required_packages) = 1
    /\ \E i \in DOMAIN f : i \in Kept(f) /\ Trimmed(f[i]) # f[i]
    /\ \E i \in DOMAIN f : NonSpace(f[i]) # {} /\ i \notin Kept(f)

\* The entries of `queried` whose query exited with a non-zero status.
RECURSIVE NonZeroExits(_)
NonZeroExits(q) ==
    IF q = <<>> THEN <<>>
    ELSE IF Head(q)[2] = "nonzero"
         THEN <<Head(q)[1]>> \o NonZeroExits(Tail(q))
         ELSE NonZeroExits(Tail(q))

\* C8 (as claimed): with requirements.txt present the finished dependency
\* check has queried every entry of the requirement list, its missing
\* packages are exactly the entries whose query exited non-zero, and it
\* fails if and only if that list is non-empty (and passes otherwise).
C8_MissingListIsExact ==
    (isfile /\ "test_requirements_installed" \in finished) =>
        /\ Len(queried) = Len(required_packages)
        /\ \A i \in DOMAIN queried : queried[i][1] = required_packages[i]
        /\ missing_packages = NonZeroExits(queried)
        /\ TestFailed("test_requirements_installed") <=> missing_packages # <<>>
        /\ Passed("test_requirements_installed") <=> missing_packages = <<>>

\* C9 (as claimed): a finished existence or activation check whose own
\* condition is false has reported "Test Failed" and has not added its 33,
\* whatever the other conditions are.
C9_FalseConditionReportsFailure ==
    /\ ("test_venv_exists" \in finished /\ ~isdir) =>
           TestFailed("test_venv_exists") /\ ~Passed("test_venv_exists")
    /\ ("test_venv_is_active" \in finished /\ VIRTUAL_ENV = "") =>
           TestFailed("test_venv_is_active") /\ ~Passed("test_venv_is_active")

\* C10: in every state of a run, in whatever order the checks execute, the
\* progress counter is the sum of the weights (33, 33, 34) of the checks
\* that have passed so far, each counted once; it lies in
\* {0, 33, 34, 66, 67, 100}.
C10_ProgressIsSumOfPassedWeights ==
    /\ progress = SumWeights({t \in Tests : Passed(t)})
    /\ {t \in Tests : Passed(t)} \subseteq finished
    /\ progress \in {0, 33, 34, 66, 67, 100}

C10_Witness ==
    /\ progress = 67
    /\ ~Passed("test_venv_exists")
    /\ "test_venv_exists" \in finished

====
